---- MODULE Spec2Model ----
(***************************************************************************)
(* Model of the GCS revision adapter of ember-cli-deploy-gcs-index:        *)
(* upload, activate and fetchRevisions over one bucket, with               *)
(* joinUriSegments building the object keys.                               *)
(*                                                                         *)
(* Strings are sequences of one-character strings, so that joining,        *)
(* prefix matching, substr and indexOf are computed as the code computes   *)
(* them.  Every storage call (getFiles, getMetadata, the write stream,     *)
(* copy, makePublic, setMetadata) takes effect and calls back in one step  *)
(* of its own; the promise continuation that follows it, and that issues   *)
(* the next storage call, is part of that step.                            *)
(***************************************************************************)
EXTENDS Integers, Sequences, FiniteSets, TLC

\* ---------------------------------------------------------------- bounds
\* Calls of upload / activate / fetchRevisions made in one sequential run.
MaxCalls == 3
\* Calls made in one run in which calls may overlap.
MaxOverlap == 2
\* Largest last-modified timestamp the bucket's clock hands out.
MaxClock == 2

\* Two callers, so that two calls can be in flight at once.
Procs == {"p1", "p2"}

\* ---------------------------------------------------------------- inputs
Prefixes == { <<>>, <<"p">> }
Patterns == { <<"f">>, <<"a", "f">> }
RevKeys  == { <<"a">>, <<"a", "b">> }
Contents == { "v1", "v2" }

\* JavaScript's undefined, for string-valued fields.
Undefined == "undefined"

DefaultCacheControl == "max-age=0, no-cache"

\* The custom-metadata object of a storage object (metadata.metadata);
\* has = FALSE stands for an object that carries none.
NoMetadata == [has |-> FALSE, revision |-> <<>>, owner |-> Undefined]

\* options.meta as the caller passes it: absent, with a cacheControl and
\* another field, or with an empty cacheControl and a custom-metadata object
\* that already names another revision.
NoMeta == [cacheControl |-> Undefined, contentLanguage |-> Undefined,
           metadata |-> NoMetadata]

CallerMetas ==
    { NoMeta,
      [cacheControl |-> "public", contentLanguage |-> "en",
       metadata |-> NoMetadata],
      [cacheControl |-> "", contentLanguage |-> Undefined,
       metadata |-> [has |-> TRUE, revision |-> <<"z">>, owner |-> "ops"]] }

\* !v for a string-valued field: undefined and the empty string are falsy.
Falsy(v) == v \in {Undefined, ""}

\* ---------------------------------------------------------------- strings
\* Character codes, for the bucket's lexicographic listing order.
Code(c) ==
    CASE c = "/" -> 47
      [] c = ":" -> 58
      [] c = "a" -> 97
      [] c = "b" -> 98
      [] c = "f" -> 102
      [] c = "p" -> 112
      [] OTHER   -> 0

\* a < b in lexicographic order.
RECURSIVE KeyLess(_, _)
KeyLess(a, b) ==
    IF b = <<>> THEN FALSE
    ELSE IF a = <<>> THEN TRUE
    ELSE IF Code(Head(a)) # Code(Head(b)) THEN Code(Head(a)) < Code(Head(b))
    ELSE KeyLess(Tail(a), Tail(b))

\* s.indexOf(t): the first 0-based position of t in s, -1 when absent.
indexOf(s, t) ==
    LET hits == { i \in 0..(Len(s) - Len(t)) : SubSeq(s, i + 1, i + Len(t)) = t }
    IN  IF hits = {} THEN -1
        ELSE CHOOSE i \in hits : \A j \in hits : i <= j

\* s.substr(n)
substr(s, n) == SubSeq(s, n + 1, Len(s))

\* [prefix, uri].join('/')
JoinSlash(prefix, uri) == prefix \o <<"/">> \o uri

\* Faulty variant: the separator is written even for an empty prefix.
joinUriSegmentsAlwaysJoin(prefix, uri) == JoinSlash(prefix, uri)

joinUriSegments(prefix, uri) ==
    IF prefix = <<>> THEN uri ELSE JoinSlash(prefix, uri)

\* The three keys an operation derives from its options.
RevisionKeyOf(prefix, filePattern, revisionKey) ==
    joinUriSegments(prefix, filePattern \o <<":">> \o revisionKey)

RevisionPrefixOf(prefix, filePattern) ==
    joinUriSegments(prefix, filePattern \o <<":">>)

\* Faulty variant: the index key is built from a revision's key.
IndexKeyOfRevision(prefix, filePattern) ==
    joinUriSegments(prefix, filePattern \o <<":", "a">>)

IndexKeyOf(prefix, filePattern) == joinUriSegments(prefix, filePattern)

\* ---------------------------------------------------------------- state
VARIABLES
    prefix,       \* options.prefix of this deployment
    filePattern,  \* options.filePattern of this deployment
    store,        \* the bucket: object key -> object
    clock,        \* the bucket's last-modified clock
    budget,       \* calls this run may still make
    proc          \* per caller: the call in flight, its locals and its promise

vars == <<prefix, filePattern, store, clock, budget, proc>>

\* A promise: pending, resolved with a value, or rejected with an error.
Pending        == [state |-> "pending",  error |-> "",  value |-> <<>>]
Resolved(v)    == [state |-> "resolved", error |-> "",  value |-> v]
Rejected(e)    == [state |-> "rejected", error |-> e,   value |-> <<>>]

\* The two promises of RSVP.hash in fetchRevisions.  revisions resolves with
\* the listing; current resolves with the index object's metadata, or with
\* undefined (defined = FALSE), and keeps the status code of the reply
\* (0: none yet, or a reply without a response body).
FilesPending   == [state |-> "pending", list |-> <<>>]
CurrentPending == [state |-> "pending", defined |-> FALSE, code |-> 0,
                   metadata |-> NoMetadata]

Idle ==
    [pc |-> "idle", op |-> "none",
     revisionKeyOpt |-> <<>>, content |-> "", allowOverwrite |-> FALSE,
     makePublic |-> FALSE, optionsMeta |-> NoMeta, meta |-> NoMeta,
     revisionKey |-> <<>>, indexKey |-> <<>>, revisionPrefix |-> <<>>,
     files |-> FilesPending, current |-> CurrentPending,
     result |-> Pending, log |-> <<>>]

\* A newly written object, with the metadata upload passes to createWriteStream.
UploadedObject(content, t) ==
    [content |-> content, updated |-> t,
     cacheControl |-> DefaultCacheControl, contentLanguage |-> Undefined,
     public |-> FALSE, metadata |-> NoMetadata]

Exists(key) == key \in DOMAIN store

\* The bucket stamps a write with the current time; the clock may have moved.
Stamps == { t \in {clock, clock + 1} : t <= MaxClock }

\* A new deployment: nothing in the bucket under its prefix.
Init ==
    /\ prefix \in Prefixes
    /\ filePattern \in Patterns
    /\ store = << >>
    /\ clock = 0
    /\ budget = MaxCalls
    /\ proc = [p \in Procs |-> Idle]

\* ------------------------------------------------- fetchRevisions, pure part
StartsWith(s, pre) == Len(pre) <= Len(s) /\ SubSeq(s, 1, Len(pre)) = pre

\* bucket.getFiles({prefix}): the objects whose name starts with the prefix,
\* in the bucket's (lexicographic) listing order.
RECURSIVE ListInOrder(_)
ListInOrder(keys) ==
    IF keys = {} THEN <<>>
    ELSE LET k == CHOOSE x \in keys : \A y \in keys : x = y \/ KeyLess(x, y)
         IN  <<[name |-> k, updated |-> store[k].updated]>>
                 \o ListInOrder(keys \ {k})

getFiles(pre) == ListInOrder({ k \in DOMAIN store : StartsWith(k, pre) })

\* Faulty variant: oldest first.
compareAscending(a, b) == a.updated - b.updated

\* The comparator handed to sort: new Date(b.updated) - new Date(a.updated).
compare(a, b) == b.updated - a.updated

\* Array.prototype.sort with that comparator (stable).
RECURSIVE Insert(_, _)
Insert(x, sorted) ==
    IF sorted = <<>> THEN <<x>>
    ELSE IF compare(Head(sorted), x) <= 0
         THEN <<Head(sorted)>> \o Insert(x, Tail(sorted))
         ELSE <<x>> \o sorted

RECURSIVE sort(_)
sort(list) ==
    IF list = <<>> THEN <<>>
    ELSE Insert(list[Len(list)], sort(SubSeq(list, 1, Len(list) - 1)))

\* data.current && d.name.indexOf(data.current.metadata.revision) >= 0
activeOf(d, current) ==
    IF ~current.defined THEN Undefined
    ELSE IF indexOf(d.name, current.metadata.revision) >= 0 THEN "true"
    ELSE "false"

\* The map callback reads data.current.metadata.revision: a TypeError when the
\* index object exists and carries no custom metadata (the callback runs only
\* when there is a file to map).
Throws(files, current) ==
    /\ files.list # <<>>
    /\ current.defined
    /\ ~current.metadata.has

mapRevisions(sorted, current, revisionPrefix) ==
    [i \in 1..Len(sorted) |->
        [revision  |-> substr(sorted[i].name, Len(revisionPrefix)),
         timestamp |-> sorted[i].updated,
         active    |-> activeOf(sorted[i], current)]]

\* The promise fetchRevisions returns, once both halves of the hash are in.
fetchRevisionsThen(files, current, revisionPrefix) ==
    IF Throws(files, current) THEN Rejected("TypeError")
    ELSE Resolved(mapRevisions(sort(files.list), current, revisionPrefix))

\* found = revisions.map(e => e.revision).indexOf(options.revisionKey)
found(revisions, revisionKeyOpt) ==
    LET hits == { i \in 1..Len(revisions) : revisions[i].revision = revisionKeyOpt }
    IN  IF hits = {} THEN -1
        ELSE (CHOOSE i \in hits : \A j \in hits : i <= j) - 1

\* ---------------------------------------------------------------- calls
Set(p, rec) == proc' = [proc EXCEPT ![p] = rec]

CanStart(p) == proc[p].pc = "idle" /\ budget > 0

\* Faulty variant: a revision the caller's metadata already names is kept.
activateMetaKeepsRevision(meta, revisionKeyOpt) ==
    [meta EXCEPT
        !.cacheControl = IF Falsy(meta.cacheControl)
                         THEN DefaultCacheControl ELSE meta.cacheControl,
        !.metadata = [has |-> TRUE,
                      revision |-> IF meta.metadata.has
                                   THEN meta.metadata.revision
                                   ELSE revisionKeyOpt,
                      owner |-> meta.metadata.owner]]

\* The metadata activate hands to setMetadata: options.meta || {}, with the
\* cacheControl default and the revision stamp.
activateMeta(meta, revisionKeyOpt) ==
    [meta EXCEPT
        !.cacheControl = IF Falsy(meta.cacheControl)
                         THEN DefaultCacheControl ELSE meta.cacheControl,
        !.metadata = [has |-> TRUE, revision |-> revisionKeyOpt,
                      owner |-> meta.metadata.owner]]

\* A call begins: its locals are computed, and fetchRevisions issues its two
\* storage reads at once.
Begin(p, opName, revisionKeyOpt, content, allowOverwrite, makePublic, meta) ==
    /\ budget' = budget - 1
    /\ Set(p, [Idle EXCEPT
            !.pc = "fetch", !.op = opName,
            !.revisionKeyOpt = revisionKeyOpt, !.content = content,
            !.allowOverwrite = allowOverwrite, !.makePublic = makePublic,
            !.optionsMeta = meta,
            !.meta = IF opName = "activate"
                     THEN activateMeta(meta, revisionKeyOpt) ELSE meta,
            !.revisionKey = RevisionKeyOf(prefix, filePattern, revisionKeyOpt),
            !.indexKey = IndexKeyOf(prefix, filePattern),
            !.revisionPrefix = RevisionPrefixOf(prefix, filePattern),
            !.log = <<"getFiles", "getMetadata">>])
    /\ UNCHANGED <<prefix, filePattern, store, clock>>

StartUpload(p) ==
    /\ CanStart(p)
    /\ \E r \in RevKeys, c \in Contents, allowOverwrite \in BOOLEAN :
           Begin(p, "upload", r, c, allowOverwrite, FALSE, NoMeta)

StartActivate(p) ==
    /\ CanStart(p)
    /\ \E r \in RevKeys, m \in CallerMetas, makePublic \in BOOLEAN :
           Begin(p, "activate", r, "", FALSE, makePublic, m)

StartFetchRevisions(p) ==
    /\ CanStart(p)
    /\ Begin(p, "fetchRevisions", <<>>, "", FALSE, FALSE, NoMeta)

\* Faulty variant: the overwrite guard is gone.
uploadThenUnguarded(me, revisions) ==
    [me EXCEPT !.pc = "write", !.log = Append(me.log, "createWriteStream")]

\* upload's continuation of fetchRevisions: the overwrite guard, then the
\* write stream is opened.
uploadThen(me, revisions) ==
    IF found(revisions, me.revisionKeyOpt) >= 0 /\ ~me.allowOverwrite
    THEN [me EXCEPT !.pc = "done",
                    !.result = Rejected("REVISION ALREADY UPLOADED!")]
    ELSE [me EXCEPT !.pc = "write",
                    !.log = Append(me.log, "createWriteStream")]

\* Faulty variant: the copy is issued whether or not the revision is listed.
activateThenUnchecked(me, revisions) ==
    [me EXCEPT !.pc = "copy", !.log = Append(me.log, "copy")]

\* activate's continuation of fetchRevisions: copy when the revision is listed.
activateThen(me, revisions) ==
    IF found(revisions, me.revisionKeyOpt) >= 0
    THEN [me EXCEPT !.pc = "copy", !.log = Append(me.log, "copy")]
    ELSE [me EXCEPT !.pc = "done", !.result = Rejected("REVISION NOT FOUND!")]

\* What the caller of fetchRevisions does with its promise.
Continue(me, promise) ==
    IF promise.state = "rejected"
    THEN [me EXCEPT !.pc = "done", !.result = promise]
    ELSE LET seen == [me EXCEPT !.log = Append(me.log, "fetchRevisions.resolved")]
         IN  CASE me.op = "upload"   -> uploadThen(seen, promise.value)
               [] me.op = "activate" -> activateThen(seen, promise.value)
               [] OTHER              -> [seen EXCEPT !.pc = "done", !.result = promise]

\* RSVP.hash: rejects with the first rejection, resolves once both promises
\* have resolved.
Settle(me) ==
    IF me.files.state = "rejected"
    THEN Continue(me, Rejected("getFiles error"))
    ELSE IF me.current.state = "rejected"
    THEN Continue(me, Rejected("getMetadata error"))
    ELSE IF me.files.state = "pending" \/ me.current.state = "pending"
    THEN me
    ELSE Continue(me, fetchRevisionsThen(me.files, me.current, me.revisionPrefix))

\* getFiles calls back with the listing.
GetFilesOk(p) ==
    /\ proc[p].pc = "fetch"
    /\ proc[p].files.state = "pending"
    /\ Set(p, Settle([proc[p] EXCEPT
            !.files = [state |-> "resolved",
                       list |-> getFiles(proc[p].revisionPrefix)]]))
    /\ UNCHANGED <<prefix, filePattern, store, clock, budget>>

\* getFiles calls back with an error: the hash rejects at once.
GetFilesError(p) ==
    /\ proc[p].pc = "fetch"
    /\ proc[p].files.state = "pending"
    /\ Set(p, Settle([proc[p] EXCEPT !.files.state = "rejected"]))
    /\ UNCHANGED <<prefix, filePattern, store, clock, budget>>

\* Faulty variant: every getMetadata error is swallowed.
isNotFoundAnyError(response) == TRUE

\* response && response.error && response.error.code === 404
isNotFound(response) == response.has /\ response.code = 404

\* The (error, metadata, response) triples getMetadata can call back with:
\* the index object's metadata, a 404 when it does not exist, and a failure
\* of the request itself, with or without a response body.
MetadataReplies(indexKey) ==
    (IF Exists(indexKey)
        THEN { [error |-> FALSE, metadata |-> store[indexKey].metadata,
                response |-> [has |-> TRUE, code |-> 200]] }
        ELSE { [error |-> TRUE, metadata |-> NoMetadata,
                response |-> [has |-> TRUE, code |-> 404]] })
    \cup { [error |-> TRUE, metadata |-> NoMetadata,
            response |-> [has |-> TRUE, code |-> 403]],
           [error |-> TRUE, metadata |-> NoMetadata,
            response |-> [has |-> FALSE, code |-> 0]] }

\* The getMetadata callback of fetchRevisions.
getMetadataCallback(me, reply) ==
    LET got == [CurrentPending EXCEPT !.code = reply.response.code]
    IN  IF reply.error
        THEN IF isNotFound(reply.response)
             THEN Settle([me EXCEPT !.current = [got EXCEPT !.state = "resolved"]])
             ELSE Settle([me EXCEPT !.current = [got EXCEPT !.state = "rejected"]])
        ELSE Settle([me EXCEPT !.current =
                        [got EXCEPT !.state = "resolved", !.defined = TRUE,
                                    !.metadata = reply.metadata]])

GetMetadata(p) ==
    /\ proc[p].pc = "fetch"
    /\ proc[p].current.state = "pending"
    /\ \E reply \in MetadataReplies(proc[p].indexKey) :
           Set(p, getMetadataCallback(proc[p], reply))
    /\ UNCHANGED <<prefix, filePattern, store, clock, budget>>

\* ---------------------------------------------------------------- upload
\* The write stream finishes: the object is there, and upload resolves.
WriteFinish(p) ==
    /\ proc[p].pc = "write"
    /\ \E t \in Stamps :
        /\ store' = (proc[p].revisionKey :> UploadedObject(proc[p].content, t))
                        @@ store
        /\ clock' = t
    /\ Set(p, [proc[p] EXCEPT !.pc = "done", !.result = Resolved(<<>>),
                              !.log = Append(@, "finish")])
    /\ UNCHANGED <<prefix, filePattern, budget>>

\* The write stream emits 'error': nothing is written, and upload rejects.
WriteError(p) ==
    /\ proc[p].pc = "write"
    /\ Set(p, [proc[p] EXCEPT !.pc = "done", !.result = Rejected("write error"),
                              !.log = Append(@, "error")])
    /\ UNCHANGED <<prefix, filePattern, store, clock, budget>>

\* ---------------------------------------------------------------- activate
\* file.copy(indexKey): the index object becomes a copy of the revision
\* object, metadata included, private until made public.
copied(source, t) == [source EXCEPT !.updated = t, !.public = FALSE]

\* After the copy: makePublic first when asked for, else setMetadata.
copyThen(me) ==
    IF me.makePublic
    THEN [me EXCEPT !.pc = "makePublic",
                    !.log = me.log \o <<"copy.done", "makePublic">>]
    ELSE [me EXCEPT !.pc = "setMetadata",
                    !.log = me.log \o <<"copy.done", "setMetadata">>]

CopyOk(p) ==
    /\ proc[p].pc = "copy"
    /\ Exists(proc[p].revisionKey)
    /\ \E t \in Stamps :
        /\ store' = (proc[p].indexKey :> copied(store[proc[p].revisionKey], t))
                        @@ store
        /\ clock' = t
    /\ Set(p, copyThen(proc[p]))
    /\ UNCHANGED <<prefix, filePattern, budget>>

CopyError(p) ==
    /\ proc[p].pc = "copy"
    /\ Set(p, [proc[p] EXCEPT !.pc = "done", !.result = Rejected("copy error"),
                              !.log = Append(@, "copy.failed")])
    /\ UNCHANGED <<prefix, filePattern, store, clock, budget>>

\* makePublic().then(onFulfilled, ...): setMetadata is next.
makePublicFulfilled(me) ==
    [me EXCEPT !.pc = "setMetadata",
               !.log = me.log \o <<"makePublic.done", "setMetadata">>]

\* makePublic().then(..., onRejected): the error is logged, and the handler
\* returns nothing, which resolves activate.
makePublicRejected(me) ==
    [me EXCEPT !.pc = "done", !.result = Resolved(<<>>),
               !.log = Append(me.log, "makePublic.failed")]

MakePublicOk(p) ==
    /\ proc[p].pc = "makePublic"
    /\ Exists(proc[p].indexKey)
    /\ store' = [store EXCEPT ![proc[p].indexKey].public = TRUE]
    /\ Set(p, makePublicFulfilled(proc[p]))
    /\ UNCHANGED <<prefix, filePattern, clock, budget>>

MakePublicError(p) ==
    /\ proc[p].pc = "makePublic"
    /\ Set(p, makePublicRejected(proc[p]))
    /\ UNCHANGED <<prefix, filePattern, store, clock, budget>>

\* file.setMetadata(meta): the fields meta names are patched, custom metadata
\* key by key.
patched(object, meta) ==
    [object EXCEPT
        !.cacheControl = meta.cacheControl,
        !.contentLanguage = IF meta.contentLanguage = Undefined
                            THEN object.contentLanguage ELSE meta.contentLanguage,
        !.metadata = [has |-> TRUE, revision |-> meta.metadata.revision,
                      owner |-> IF meta.metadata.owner = Undefined
                                THEN object.metadata.owner
                                ELSE meta.metadata.owner]]

\* setMetadata(meta).then(log): activate resolves.
setMetadataFulfilled(me) ==
    [me EXCEPT !.pc = "done", !.result = Resolved(<<>>),
               !.log = Append(me.log, "setMetadata.done")]

\* Faulty variant: a setMetadata failure is swallowed the way makePublic's is.
setMetadataRejectedSwallowed(me) ==
    [me EXCEPT !.pc = "done", !.result = Resolved(<<>>),
               !.log = Append(me.log, "setMetadata.failed")]

\* No rejection handler covers setMetadata: activate rejects with its error.
setMetadataRejected(me) ==
    [me EXCEPT !.pc = "done", !.result = Rejected("setMetadata error"),
               !.log = Append(me.log, "setMetadata.failed")]

SetMetadataOk(p) ==
    /\ proc[p].pc = "setMetadata"
    /\ Exists(proc[p].indexKey)
    /\ store' = [store EXCEPT ![proc[p].indexKey] = patched(@, proc[p].meta)]
    /\ Set(p, setMetadataFulfilled(proc[p]))
    /\ UNCHANGED <<prefix, filePattern, clock, budget>>

SetMetadataError(p) ==
    /\ proc[p].pc = "setMetadata"
    /\ Set(p, setMetadataRejected(proc[p]))
    /\ UNCHANGED <<prefix, filePattern, store, clock, budget>>

\* The caller takes the settled promise; the adapter keeps nothing of the call.
Return(p) ==
    /\ proc[p].pc = "done"
    /\ Set(p, Idle)
    /\ UNCHANGED <<prefix, filePattern, store, clock, budget>>

\* ---------------------------------------------------------------- behaviours
Step(p) ==
    \/ GetFilesOk(p)
    \/ GetFilesError(p)
    \/ GetMetadata(p)
    \/ WriteFinish(p)
    \/ WriteError(p)
    \/ CopyOk(p)
    \/ CopyError(p)
    \/ MakePublicOk(p)
    \/ MakePublicError(p)
    \/ SetMetadataOk(p)
    \/ SetMetadataError(p)
    \/ Return(p)

Start(p) ==
    \/ StartUpload(p)
    \/ StartActivate(p)
    \/ StartFetchRevisions(p)

\* One call at a time: a call starts only when no other is in flight.
Quiet == \A q \in Procs : proc[q].pc = "idle"

Caller == CHOOSE p \in Procs : TRUE

SeqNext == (Quiet /\ Start(Caller)) \/ (\E p \in Procs : Step(p))

SeqSpec == Init /\ [][SeqNext]_vars

\* The bucket after both revisions were uploaded, one after the other.
Uploaded ==
    (RevisionKeyOf(prefix, filePattern, <<"a">>) :> UploadedObject("v1", 0))
    @@ (RevisionKeyOf(prefix, filePattern, <<"a", "b">>) :> UploadedObject("v2", 1))

\* Overlapping calls start on a new deployment or on one with its revisions
\* uploaded.
OverlapInit ==
    /\ prefix \in Prefixes
    /\ filePattern \in Patterns
    /\ \/ store = << >> /\ clock = 0
       \/ store = Uploaded /\ clock = 1
    /\ budget = MaxOverlap
    /\ proc = [p \in Procs |-> Idle]

\* Callers may overlap.
Next == \E p \in Procs : Start(p) \/ Step(p)

Spec == OverlapInit /\ [][Next]_vars

\* ---------------------------------------------------------------- claims
\* The keys as the specification writes them: "<prefix>/<filePattern>" for the
\* index and "<prefix>/<filePattern>:<revisionKey>" for a revision, the prefix
\* and its separator left out when the prefix is empty.
WireIndexKey ==
    IF prefix = <<>> THEN filePattern ELSE prefix \o <<"/">> \o filePattern

WireRevisionPrefix == WireIndexKey \o <<":">>

WireRevisionKey(r) == WireRevisionPrefix \o r

Has(log, event) == \E i \in 1..Len(log) : log[i] = event

\* fetchRevisions has resolved inside this call.
Fetched(me) == Has(me.log, "fetchRevisions.resolved")

\* The listing this call received names the revision it was called with.
Listed(me) ==
    \E i \in 1..Len(me.files.list) :
        me.files.list[i].name = WireRevisionKey(me.revisionKeyOpt)

Mutating == {"createWriteStream", "copy", "makePublic", "setMetadata"}

IssuedNoMutation(me) == \A i \in 1..Len(me.log) : me.log[i] \notin Mutating

\* The step is taken by caller p.
Moved(p) == proc'[p] # proc[p]

\* C1: an activate whose listing does not name its revisionKey rejects with
\* "REVISION NOT FOUND!" and issues no copy, makePublic or setMetadata.
C1_NotFoundState ==
    \A p \in Procs :
        LET me == proc[p] IN
        (me.op = "activate" /\ Fetched(me) /\ ~Listed(me))
            => /\ me.pc = "done"
               /\ me.result = Rejected("REVISION NOT FOUND!")
               /\ IssuedNoMutation(me)

\* C1: no step of an activate that has issued no copy changes the bucket, so
\* the index object is after the rejected call what it was before it.
C1_NotFoundStep ==
    \A p \in Procs :
        (Moved(p) /\ proc'[p].op = "activate" /\ IssuedNoMutation(proc'[p]))
            => store' = store

\* C1: activating a revisionKey that is not listed rejects with the 'revision
\* not found' error, issues no mutating storage call and leaves the index
\* object as it was.
C1_ActivateNotFound == [] C1_NotFoundState /\ [][C1_NotFoundStep]_vars

\* C1 witness: an activate was rejected as not found while an index object
\* activated earlier is in the bucket.
C1_Witness ==
    \E p \in Procs :
        /\ proc[p].op = "activate"
        /\ proc[p].result = Rejected("REVISION NOT FOUND!")
        /\ Exists(proc[p].indexKey)
        /\ store[proc[p].indexKey].metadata.has

\* C2: the write stream is opened exactly when overwriting is allowed or the
\* listing does not name the revision; otherwise upload rejects as already
\* uploaded.
C2_Guard ==
    \A p \in Procs :
        LET me == proc[p] IN
        (me.op = "upload" /\ Fetched(me))
            => /\ Has(me.log, "createWriteStream")
                    <=> (me.allowOverwrite \/ ~Listed(me))
               /\ ~Has(me.log, "createWriteStream")
                    => /\ me.pc = "done"
                       /\ me.result = Rejected("REVISION ALREADY UPLOADED!")

\* C2: with one call at a time, a write stream is open over an existing
\* revision object only when overwriting is allowed, a rejected duplicate
\* finds its object in the bucket, and a resolved upload leaves its own
\* content there.
C2_Sequential ==
    \A p \in Procs :
        LET me == proc[p] IN
        me.op = "upload"
            => /\ (me.pc = "write" /\ Exists(WireRevisionKey(me.revisionKeyOpt)))
                    => me.allowOverwrite
               /\ me.result.error = "REVISION ALREADY UPLOADED!"
                    => Exists(WireRevisionKey(me.revisionKeyOpt))
               /\ me.result.state = "resolved"
                    => /\ Exists(WireRevisionKey(me.revisionKeyOpt))
                       /\ store[WireRevisionKey(me.revisionKeyOpt)].content
                              = me.content

\* C2: an upload changes the bucket in no step but the one that finishes its
\* write stream.
C2_Step ==
    \A p \in Procs :
        (Moved(p) /\ proc'[p].op = "upload" /\ ~Has(proc'[p].log, "finish"))
            => store' = store

\* C2: in a sequential run upload writes its revision object iff allowOverwrite
\* is set or no listed revision equals revisionKey; a duplicate without
\* allowOverwrite rejects as already uploaded and changes nothing, and with
\* allowOverwrite the stored content is that of the last upload.
C2_UploadGuard == [] (C2_Guard /\ C2_Sequential) /\ [][C2_Step]_vars

\* C2 witness: a second upload of a revision, with other content and without
\* allowOverwrite, was rejected and the first object is still there.
C2_Witness ==
    \E p \in Procs :
        /\ proc[p].op = "upload"
        /\ ~proc[p].allowOverwrite
        /\ proc[p].result = Rejected("REVISION ALREADY UPLOADED!")
        /\ Exists(proc[p].revisionKey)
        /\ store[proc[p].revisionKey].content # proc[p].content

\* What a fetchRevisions called now, with no other call in flight and no
\* storage failure, resolves or rejects with.
NextFetch ==
    fetchRevisionsThen(
        [state |-> "resolved", list |-> getFiles(WireRevisionPrefix)],
        IF Exists(WireIndexKey)
            THEN [CurrentPending EXCEPT !.state = "resolved", !.defined = TRUE,
                      !.code = 200, !.metadata = store[WireIndexKey].metadata]
            ELSE [CurrentPending EXCEPT !.state = "resolved", !.code = 404],
        WireRevisionPrefix)

\* C3: once an activate of R has resolved with its metadata written, the index
\* object's metadata.revision is R and the next fetchRevisions reports active
\* = true for R and active = false for every other revision.  (Violated: the
\* active flag is a substring test of the object name.)
C3_OnlyActivatedIsActive ==
    \A p \in Procs :
        LET me == proc[p] IN
        (me.op = "activate" /\ me.result.state = "resolved"
            /\ Has(me.log, "setMetadata.done"))
            => /\ store[WireIndexKey].metadata.has
               /\ store[WireIndexKey].metadata.revision = me.revisionKeyOpt
               /\ NextFetch.state = "resolved"
               /\ \A i \in 1..Len(NextFetch.value) :
                     NextFetch.value[i].active =
                         IF NextFetch.value[i].revision = me.revisionKeyOpt
                         THEN "true" ELSE "false"

\* C4: when makePublic fails inside an activate, the activate does not reject
\* and the index object's metadata.revision is the activated revisionKey.
\* (Violated: the rejection handler only logs, and setMetadata is never
\* issued.)
C4_MakePublicFailureStillSetsMetadata ==
    \A p \in Procs :
        LET me == proc[p] IN
        (me.op = "activate" /\ me.pc = "done" /\ Has(me.log, "makePublic.failed"))
            => /\ me.result.state = "resolved"
               /\ store[WireIndexKey].metadata.has
               /\ store[WireIndexKey].metadata.revision = me.revisionKeyOpt

\* C5: a 404 from getMetadata is "no current revision": the listing resolves
\* (empty when there are no revision objects) with no revision active; a
\* getFiles failure, or a getMetadata failure other than 404, rejects the call
\* with that error.
C5_NotFoundTolerated ==
    \A p \in Procs :
        LET me == proc[p] IN
        /\ (me.current.state # "pending" /\ me.current.code = 404)
              => /\ me.current.state = "resolved"
                 /\ ~me.current.defined
        /\ (me.op = "fetchRevisions" /\ me.files.state = "resolved"
              /\ me.current.state # "pending" /\ me.current.code = 404)
              => /\ me.pc = "done"
                 /\ me.result.state = "resolved"
                 /\ Len(me.result.value) = Len(me.files.list)
                 /\ \A i \in 1..Len(me.result.value) :
                       me.result.value[i].active # "true"
        /\ me.files.state = "rejected"
              => me.pc = "done" /\ me.result = Rejected("getFiles error")
        /\ (me.current.state # "pending" /\ me.current.code \notin {200, 404})
              => me.pc = "done" /\ me.result = Rejected("getMetadata error")

\* C5 witness: a listing resolved with revisions in it although the index
\* object does not exist.
C5_Witness ==
    \E p \in Procs :
        /\ proc[p].op = "fetchRevisions"
        /\ proc[p].current.state = "resolved"
        /\ proc[p].current.code = 404
        /\ proc[p].result.state = "resolved"
        /\ Len(proc[p].result.value) >= 1

\* The revision objects in the bucket, as the specification names them.
RevisionObjects == { k \in DOMAIN store : StartsWith(k, WireRevisionPrefix) }

DistinctTimestamps ==
    \A j, k \in RevisionObjects : j # k => store[j].updated # store[k].updated

\* C6: when the revision objects have distinct timestamps, a resolved
\* fetchRevisions has exactly one entry per revision object, newest first,
\* each entry's revision being the object's key without the revision prefix.
C6_NewestFirst ==
    \A p \in Procs :
        LET me == proc[p]
            out == me.result.value
        IN  (me.op = "fetchRevisions" /\ me.result.state = "resolved"
                /\ DistinctTimestamps)
            => /\ Len(out) = Cardinality(RevisionObjects)
               /\ \A k \in RevisionObjects :
                     \E i \in 1..Len(out) :
                        /\ WireRevisionPrefix \o out[i].revision = k
                        /\ out[i].timestamp = store[k].updated
               /\ \A i, j \in 1..Len(out) :
                     i < j => out[i].timestamp > out[j].timestamp

\* C6 witness: a listing of two revisions uploaded at different times.
C6_Witness ==
    \E p \in Procs :
        /\ proc[p].op = "fetchRevisions"
        /\ proc[p].result.state = "resolved"
        /\ Len(proc[p].result.value) = 2
        /\ DistinctTimestamps

\* C7: joinUriSegments leaves an empty prefix and its separator out and joins
\* a non-empty prefix with "/"; every call derives its index key, revision
\* prefix and revision key by that rule, so every object in the bucket sits
\* at a wire-format key, the object activate copies from is the one upload
\* wrote, and a listing names every revision object.
C7_KeysAgree ==
    /\ \A f \in Patterns \cup RevKeys :
          /\ joinUriSegments(<<>>, f) = f
          /\ \A q \in Prefixes \ {<<>>} :
                joinUriSegments(q, f) = q \o <<"/">> \o f
    /\ \A k \in DOMAIN store :
          k = WireIndexKey \/ \E r \in RevKeys : k = WireRevisionKey(r)
    /\ \A p \in Procs :
          LET me == proc[p] IN
          me.op # "none"
            => /\ me.indexKey = WireIndexKey
               /\ me.revisionPrefix = WireRevisionPrefix
               /\ me.op # "fetchRevisions"
                    => me.revisionKey = WireRevisionKey(me.revisionKeyOpt)
               /\ me.pc = "copy" => Exists(me.revisionKey)
               /\ (me.op = "upload" /\ me.result.state = "resolved")
                    => Exists(WireRevisionKey(me.revisionKeyOpt))
               /\ (me.files.state = "resolved" /\ ~Has(me.log, "finish"))
                    => { me.files.list[i].name : i \in 1..Len(me.files.list) }
                          = DOMAIN store \ {WireIndexKey}

\* C7 witness: under a non-empty prefix, an activate is about to copy the
\* revision object an upload wrote.
C7_Witness ==
    /\ prefix # <<>>
    /\ \E p \in Procs :
          /\ proc[p].op = "activate"
          /\ proc[p].pc = "copy"
          /\ Exists(proc[p].revisionKey)

\* C8: when every upload has allowOverwrite = false, a revision object, once
\* written, is never written again: no step changes the content of a
\* revision object that is in the bucket.  (Violated: two overlapping uploads
\* of one revisionKey both pass the guard before either writes, and the
\* second write replaces the content of the first.)
C8_WrittenOnce ==
    [][ (\A q \in Procs : proc[q].op = "upload" => ~proc[q].allowOverwrite)
          => \A k \in DOMAIN store :
                k # WireIndexKey => store'[k].content = store[k].content ]_vars

\* C9: inside activate a failed copy or a failed setMetadata, with or without
\* makePublic, rejects the call with that error, as does a failed listing;
\* an activate that resolves has seen no failure but makePublic's.
C9_OnlyMakePublicSwallowed ==
    \A p \in Procs :
        LET me == proc[p] IN
        me.op = "activate"
            => /\ Has(me.log, "copy.failed")
                    => me.pc = "done" /\ me.result = Rejected("copy error")
               /\ Has(me.log, "setMetadata.failed")
                    => /\ me.pc = "done"
                       /\ me.result = Rejected("setMetadata error")
               /\ me.files.state = "rejected"
                    => me.result = Rejected("getFiles error")
               /\ me.current.state = "rejected"
                    => me.result = Rejected("getMetadata error")
               /\ me.result.state = "resolved"
                    => \A i \in 1..Len(me.log) :
                          me.log[i] \notin {"copy.failed", "setMetadata.failed"}

\* C9 witness: makePublic succeeded, setMetadata then failed, and the
\* activate rejected with setMetadata's error.
C9_Witness ==
    \E p \in Procs :
        /\ proc[p].op = "activate"
        /\ proc[p].makePublic
        /\ Has(proc[p].log, "makePublic.done")
        /\ Has(proc[p].log, "setMetadata.failed")
        /\ proc[p].result = Rejected("setMetadata error")

\* Where an event stands in a call's log (0: not there).
Pos(log, event) ==
    IF Has(log, event)
    THEN CHOOSE i \in 1..Len(log) :
            log[i] = event /\ \A j \in 1..Len(log) : log[j] = event => i <= j
    ELSE 0

Before(log, first, second) ==
    Has(log, second) => (Has(log, first) /\ Pos(log, first) < Pos(log, second))

\* C10: in every activate the copy is issued after fetchRevisions resolved
\* and listed the revision, makePublic after the copy completed, setMetadata
\* (when makePublic was asked for) after makePublic completed, and the call
\* resolves only once setMetadata has completed.  (Violated: after a failed
\* makePublic the call resolves with no setMetadata issued.)
C10_ActivateOrder ==
    \A p \in Procs :
        LET me == proc[p] IN
        me.op = "activate"
            => /\ Before(me.log, "fetchRevisions.resolved", "copy")
               /\ Has(me.log, "copy") => Listed(me)
               /\ Before(me.log, "copy.done", "makePublic")
               /\ Before(me.log, "copy.done", "setMetadata")
               /\ me.makePublic
                    => Before(me.log, "makePublic.done", "setMetadata")
               /\ me.result.state = "resolved"
                    => Has(me.log, "setMetadata.done")

\* C11: the metadata activate hands to setMetadata, and the index object
\* after it, carry the caller's cacheControl when one is supplied and
\* 'max-age=0, no-cache' otherwise, metadata.revision equal to the
\* revisionKey argument whatever revision the caller's metadata named, and
\* the caller's other fields unchanged.
C11_ActivateMetadata ==
    \A p \in Procs :
        LET me      == proc[p]
            given   == me.optionsMeta
            written == me.meta
        IN  me.op = "activate"
            => /\ written.cacheControl =
                     IF given.cacheControl \in {Undefined, ""}
                     THEN "max-age=0, no-cache" ELSE given.cacheControl
               /\ written.metadata.has
               /\ written.metadata.revision = me.revisionKeyOpt
               /\ written.contentLanguage = given.contentLanguage
               /\ written.metadata.owner = given.metadata.owner
               /\ Has(me.log, "setMetadata.done")
                    => LET index == store[WireIndexKey] IN
                       /\ index.cacheControl = written.cacheControl
                       /\ index.metadata.has
                       /\ index.metadata.revision = me.revisionKeyOpt
                       /\ given.contentLanguage # Undefined
                            => index.contentLanguage = given.contentLanguage
                       /\ given.metadata.owner # Undefined
                            => index.metadata.owner = given.metadata.owner

\* C11 witness: an activate whose caller's metadata named another revision
\* has written its metadata to the index object.
C11_Witness ==
    \E p \in Procs :
        /\ proc[p].op = "activate"
        /\ proc[p].optionsMeta.metadata.has
        /\ proc[p].optionsMeta.metadata.revision # proc[p].revisionKeyOpt
        /\ Has(proc[p].log, "setMetadata.done")

\* Both callers have activated, each a different revision, and each call
\* resolved after writing its metadata.
BothActivated ==
    /\ \A p \in Procs :
          /\ proc[p].op = "activate"
          /\ proc[p].result.state = "resolved"
          /\ Has(proc[p].log, "setMetadata.done")
    /\ \A p, q \in Procs :
          p # q => proc[p].revisionKeyOpt # proc[q].revisionKeyOpt

\* C12: when two overlapping activates of different revisions have both
\* resolved, the index object's content is that of the revision its
\* metadata.revision names.  (Violated: one call's copy can land between the
\* other's copy and setMetadata, leaving one revision's content under the
\* other's name.)
C12_IndexContentMatchesRevision ==
    BothActivated
        => /\ store[WireIndexKey].metadata.has
           /\ Exists(WireRevisionKey(store[WireIndexKey].metadata.revision))
           /\ store[WireIndexKey].content =
                 store[WireRevisionKey(store[WireIndexKey].metadata.revision)].content

\* C13: in every bucket state upload and activate can leave behind, a
\* fetchRevisions whose getFiles and getMetadata both succeeded resolves.
\* (Violated: an index object that was copied but never given its revision
\* metadata makes the map callback throw as soon as one revision is listed.)
C13_ListingResolves ==
    \A p \in Procs :
        LET me == proc[p] IN
        (me.op # "none" /\ me.files.state = "resolved"
            /\ me.current.state = "resolved")
            => /\ Fetched(me)
               /\ me.result.state = "rejected" => me.result.error # "TypeError"

\* The step is taken by caller p, in the course of a call of the given kind.
StepOf(p, opName) == Moved(p) /\ (proc[p].op = opName \/ proc'[p].op = opName)

\* The step leaves alone every object but the one at key.
OnlyWrites(key) ==
    \A k \in DOMAIN store' :
        k # key => (k \in DOMAIN store /\ store'[k] = store[k])

\* C14: fetchRevisions issues no mutating storage call and changes nothing in
\* the bucket; upload changes at most the object at its own revision key;
\* activate changes at most the index object; no object is ever removed.
C14_Step ==
    /\ DOMAIN store \subseteq DOMAIN store'
    /\ \A p \in Procs :
          /\ StepOf(p, "fetchRevisions")
                => store' = store /\ IssuedNoMutation(proc'[p])
          /\ StepOf(p, "upload")
                => /\ OnlyWrites(WireRevisionKey(
                          IF proc[p].op = "upload" THEN proc[p].revisionKeyOpt
                          ELSE proc'[p].revisionKeyOpt))
                   /\ \A i \in 1..Len(proc'[p].log) :
                         proc'[p].log[i] \notin {"copy", "makePublic", "setMetadata"}
          /\ StepOf(p, "activate")
                => /\ OnlyWrites(WireIndexKey)
                   /\ ~Has(proc'[p].log, "createWriteStream")

\* C14: each operation leaves unchanged what it does not own.
C14_Frame == [][C14_Step]_vars

\* C14 witness: an upload has finished its write while the index object and
\* another revision object were in the bucket.
C14_Witness ==
    \E p \in Procs :
        /\ proc[p].op = "upload"
        /\ Has(proc[p].log, "finish")
        /\ Exists(WireIndexKey)
        /\ \E r \in RevKeys :
              r # proc[p].revisionKeyOpt /\ Exists(WireRevisionKey(r))

====
